---- MODULE Spec2Model ----
(***************************************************************************)
(* The concurrent batch-translation pipeline of Translator/base.py:        *)
(* wait_for_slot, save_progress_file, call_api_translate, worker_process   *)
(* and MainApp.start_process / stop_process / run_logic.                    *)
(*                                                                         *)
(* A Python str is a sequence of one-character strings, so that split,     *)
(* strip, join and the ':::' search are computed and not assumed.          *)
(***************************************************************************)
EXTENDS Integers, Sequences, FiniteSets, TLC

\* ------------------------------------------------------------------ str

Min(a, b) == IF a <= b THEN a ELSE b

Max(a, b) == IF a >= b THEN a ELSE b

\* str.isspace() of one character
IsSpace(c) == c \in {" ", "\n"}

\* '0'..'9', the \d of the fallback pattern
IsDigit(c) == c \in {"0", "1", "2", "3", "4", "5", "6", "7", "8", "9"}

\* s[a:b] of Python with 1-based inclusive positions a..b
Slice(s, a, b) == IF a > b THEN << >> ELSE SubSeq(s, a, b)

\* s.find(':::') + 1 : the 1-based position of the first ':::' , 0 when absent
FindDelim(s) ==
    LET hits == {i \in 1..(Len(s) - 2) :
                    s[i] = ":" /\ s[i + 1] = ":" /\ s[i + 2] = ":"}
    IN  IF hits = {} THEN 0 ELSE CHOOSE i \in hits : \A j \in hits : i <= j

\* ':::' in s
HasDelim(s) == FindDelim(s) # 0

\* s.split(':::') : every segment, left to right, without overlap
RECURSIVE SplitDelim(_)
SplitDelim(s) ==
    LET p == FindDelim(s)
    IN  IF p = 0 THEN << s >>
        ELSE << Slice(s, 1, p - 1) >> \o SplitDelim(Slice(s, p + 3, Len(s)))

\* s.split(':::', 1) : at most one cut
SplitDelim1(s) ==
    LET p == FindDelim(s)
    IN  IF p = 0 THEN << s >>
        ELSE << Slice(s, 1, p - 1), Slice(s, p + 3, Len(s)) >>

\* s.strip()
Strip(s) ==
    LET keep == {i \in 1..Len(s) : ~IsSpace(s[i])}
    IN  IF keep = {} THEN << >>
        ELSE Slice(s, CHOOSE i \in keep : \A j \in keep : i <= j,
                      CHOOSE i \in keep : \A j \in keep : i >= j)

\* s.split('\n')
RECURSIVE SplitLines(_)
SplitLines(s) ==
    LET nl == {i \in 1..Len(s) : s[i] = "\n"}
    IN  IF nl = {} THEN << s >>
        ELSE LET p == CHOOSE i \in nl : \A j \in nl : i <= j
             IN  << Slice(s, 1, p - 1) >> \o SplitLines(Slice(s, p + 1, Len(s)))

\* '\n'.join(lines)
RECURSIVE JoinLines(_)
JoinLines(lines) ==
    IF lines = << >> THEN << >>
    ELSE IF Len(lines) = 1 THEN lines[1]
    ELSE lines[1] \o << "\n" >> \o JoinLines(Tail(lines))

\* the concatenation of a sequence of strings
RECURSIVE Concat(_)
Concat(parts) ==
    IF parts = << >> THEN << >> ELSE parts[1] \o Concat(Tail(parts))

\* f"{o_id}:::{text}"
Fmt(o_id, text) == o_id \o << ":", ":", ":" >> \o text

\* line.split(':::')[0].strip()
OId(line) == Strip(SplitDelim(line)[1])

\* ------------------------------------------------------- response parser

\* the separators of the fallback pattern's character class [|:>.)\]]
Separators == {"|", ":", ">", ".", ")", "]"}

\* the first position at or after i that ends a run of digits (digits = TRUE)
\* or of whitespace (digits = FALSE): the greedy \d+ and \s* of the pattern
RECURSIVE RunEnd(_, _, _)
RunEnd(s, i, digits) ==
    IF i <= Len(s) /\ (IF digits THEN IsDigit(s[i]) ELSE IsSpace(s[i]))
    THEN RunEnd(s, i + 1, digits) ELSE i

\* re.match(r"^(\d+)\s*(?:[|:>.)\]])\s*(.*)", line): << >> when there is no
\* match, else << group(1), group(2) >>
ReMatch(line) ==
    LET d == RunEnd(line, 1, TRUE)
        a == RunEnd(line, d, FALSE)
    IN  IF d = 1 \/ a > Len(line) \/ ~(line[a] \in Separators) THEN << >>
        ELSE LET b == RunEnd(line, a + 1, FALSE)
             IN  << Slice(line, 1, d - 1), Slice(line, b, Len(line)) >>

\* a variant of ParseLine that keeps the first text of an id
ParseLineFirstWins(map, line) ==
    IF HasDelim(line)
    THEN LET parts == SplitDelim1(line)
         IN  [k \in DOMAIN map \cup {Strip(parts[1])} |->
                 IF k \in DOMAIN map THEN map[k] ELSE Strip(parts[2])]
    ELSE LET m == ReMatch(line)
         IN  IF m = << >> THEN map
             ELSE [k \in DOMAIN map \cup {m[1]} |->
                     IF k \in DOMAIN map THEN map[k] ELSE Strip(m[2])]

\* one turn of the loop over translated_lines: translated_map after the line
ParseLine(map, line) ==
    IF HasDelim(line)
    THEN LET parts == SplitDelim1(line)
         IN  [k \in DOMAIN map \cup {Strip(parts[1])} |->
                 IF k = Strip(parts[1]) THEN Strip(parts[2]) ELSE map[k]]
    ELSE LET m == ReMatch(line)
         IN  IF m = << >> THEN map
             ELSE [k \in DOMAIN map \cup {m[1]} |->
                     IF k = m[1] THEN Strip(m[2]) ELSE map[k]]

RECURSIVE ParseLines(_, _)
ParseLines(map, lines) ==
    IF lines = << >> THEN map
    ELSE ParseLines(ParseLine(map, lines[1]), Tail(lines))

EmptyMap == [k \in {} |-> << >>]

\* translated_map built from full_content
ParseContent(full_content) ==
    ParseLines(EmptyMap, SplitLines(Strip(full_content)))

\* the text a line falls back to when its id is not in translated_map
FallbackText(line) ==
    IF HasDelim(line) THEN Strip(SplitDelim(line)[2]) ELSE line

\* a variant of ReconcileLine that looks the whole line up in the map
ReconcileLineByLine(map, line) ==
    LET o_id == OId(line)
        final_text == IF line \in DOMAIN map THEN map[line]
                      ELSE FallbackText(line)
    IN  Fmt(o_id, final_text)

\* one turn of the loop over batch_lines: the result line
ReconcileLine(map, line) ==
    LET o_id == OId(line)
        final_text == IF o_id \in DOMAIN map THEN map[o_id]
                      ELSE FallbackText(line)
    IN  Fmt(o_id, final_text)

\* a variant of Reconcile that returns a line only for the ids found
ReconcileFound(map, batch_lines) ==
    LET found == SelectSeq(batch_lines, LAMBDA l : OId(l) \in DOMAIN map)
    IN  [k \in 1..Len(found) |-> ReconcileLine(map, found[k])]

\* results of call_api_translate on the success path
Reconcile(map, batch_lines) ==
    [k \in 1..Len(batch_lines) |-> ReconcileLine(map, batch_lines[k])]

\* --------------------------------------------------------------- inputs

D == << ":", ":", ":" >>

\* the translation the remote model gives to the line with this id
TrText(o_id) == << "t" >> \o o_id

\* input files (lines as readlines() returns them, before strip)
FileHeader == << << "0" >> \o D \o << "h" >>,
                 << "1" >> \o D \o << "a", " " >>,
                 << "2" >> \o D \o << " ", "b" >> >>

FileMixed == << << "1" >> \o D \o << "a" >>,
                << "n" >>,
                << "3" >> \o D \o << "c" >> \o D \o << "d" >> >>

FileHeaderOnly == << << "0" >> \o D \o << "h" >> >>

InputFiles == {FileHeader, FileMixed, FileHeaderOnly}

\* the configuration record: the keys of config_data the pipeline reads
Configs == [threads : {0, 2}, batch_size : {1, 2}, delay : {1},
            stream : BOOLEAN]

\* a file that does not exist
Absent == << "?" >>

\* what OUTPUT_FILE holds before the first job: a prior copy
PriorOutput == << "o", "\n" >>

\* a bound of the model: how far the clock may run between two readings
MaxDrift == 1

\* a bound of the model: how many jobs the user starts one after the other
MaxJobs == 2

\* the digits that number the lines of a generated file
Digits == << "1", "2", "3", "4", "5", "6", "7", "8", "9" >>

\* a bound of the model: the longest generated input, in data-bearing lines
MaxLines == 6

\* a bound of the model: the largest thread count tried on generated inputs
MaxThreads == 4

\* generated input files: 0..MaxLines lines 'k:::a', with and without a
\* header line before them
GenLines(n) == [k \in 1..n |-> << Digits[k] >> \o D \o << "a" >>]

GenFiles ==
    {GenLines(n) : n \in 0..MaxLines}
    \cup {<< << "0" >> \o D \o << "h" >> >> \o GenLines(n) : n \in 0..MaxLines}

\* the configurations tried on generated inputs: every thread count from
\* -1 (coerced to 1) to MaxThreads
GenConfigs == [threads : (-1)..MaxThreads, batch_size : {1}, delay : {1},
               stream : {FALSE}]

\* ---------------------------------------------------------------- state

VARIABLES
    input_file,           \* the lines of the file at self.input_path
    config_data,          \* the configuration record
    main_pc,              \* where the coordinator (start_process, run_logic) is
    is_running,           \* MainApp.is_running
    stop_event,           \* stop_event.is_set()
    raw,                  \* run_logic's raw
    shared_output_lines,  \* the Output Buffer
    chunks,               \* run_logic's chunks: sequences of << line, index >>
    wk,                   \* per worker thread: the locals of worker_process
    request_lock,         \* 0, or the worker inside wait_for_slot
    file_write_lock,      \* 0, or the worker inside save_progress_file
    last_request_time,    \* the shared timestamp
    now,                  \* time.time()
    temp_file,            \* TEMP_OUTPUT_FILE: Absent or its characters
    output_file,          \* OUTPUT_FILE: Absent or its characters
    jobs,                 \* how many jobs were started
    grants,               \* history: the values stored into last_request_time
    writers,              \* history: per buffer index, the workers that wrote it
    http_log,             \* history: per worker, the requests it issued
    events,               \* history: per worker, the progress events it emitted
    snapshots             \* history: the buffer contents seen during a flush

vars == << input_file, config_data, main_pc, is_running, stop_event, raw,
           shared_output_lines, chunks, wk, request_lock, file_write_lock,
           last_request_time, now, temp_file, output_file, jobs, grants,
           writers, http_log, events, snapshots >>

Workers == DOMAIN wk

\* ----------------------------------------------------------- partitioner

\* s[a:b] of Python: 0-based, half-open, clipped to the sequence
PySlice(s, a, b) == Slice(s, a + 1, Min(b, Len(s)))

\* math.ceil(total / n_threads)
CeilDiv(total, n_threads) == (total + n_threads - 1) \div n_threads

\* list(range(0, total, step)) for step > 0
Range(total, step) == [c \in 1..CeilDiv(total, step) |-> (c - 1) * step]

\* a variant of ChunkAt whose slice ends one entry early
ChunkAtShort(data_points, i, chunk_size) ==
    PySlice(data_points, i, i + chunk_size - 1)

\* data_points[i:i+chunk_size]
ChunkAt(data_points, i, chunk_size) == PySlice(data_points, i, i + chunk_size)

\* a variant of ChunkSize that rounds down
ChunkSizeFloor(total, n_threads) == Max(1, total \div n_threads)

\* chunk_size = math.ceil(total / n_threads)
ChunkSize(total, n_threads) == CeilDiv(total, n_threads)

\* the chunks run_logic builds, for total > 0
MakeChunks(data_points, threads) ==
    LET total == Len(data_points)
        n_threads == Max(1, threads)
        chunk_size == ChunkSize(total, n_threads)
        starts == Range(total, chunk_size)
        all == [c \in 1..Len(starts) |->
                   ChunkAt(data_points, starts[c], chunk_size)]
    IN  SelectSeq(all, LAMBDA c : c # << >>)

\* raw and raw[0].startswith("0:::")
HasHeader(lines) ==
    /\ lines # << >>
    /\ Len(lines[1]) >= 4
    /\ SubSeq(lines[1], 1, 4) = << "0" >> \o D

\* a variant of InitSlot that starts every slot with the input line
InitSlotRaw(line) == line

\* the slot a line starts with
InitSlot(line) == IF HasDelim(line) THEN Fmt(OId(line), << >>) ELSE line

\* a variant of DataPoints that never skips the first line
DataPointsAll(lines) == [k \in 1..Len(lines) |-> << lines[k], k - 1 >>]

\* data_points: (line, global index) for raw[start_off:]
DataPoints(lines) ==
    LET start_off == IF HasHeader(lines) THEN 1 ELSE 0
    IN  [k \in 1..(Len(lines) - start_off) |->
            << lines[start_off + k], start_off + k - 1 >>]

\* ---------------------------------------------------------------- worker

LocalLines(w) == [k \in 1..Len(chunks[w]) |-> chunks[w][k][1]]

LocalIndices(w) == [k \in 1..Len(chunks[w]) |-> chunks[w][k][2]]

TotalItems(w) == Len(chunks[w])

\* local_lines[i:i+batch_size] and local_indices[i:i+batch_size]
BatchLines(w) ==
    PySlice(LocalLines(w), wk[w].i, wk[w].i + config_data.batch_size)

BatchIndices(w) ==
    PySlice(LocalIndices(w), wk[w].i, wk[w].i + config_data.batch_size)

NewWorker == [pc |-> "loop", i |-> 0, processed |-> 0,
              translated_batch |-> << >>, k |-> 0, frames |-> << >>,
              full_content |-> << >>, wake |-> 0, fpos |-> 0,
              observed |-> FALSE, outcome |-> "none", failed |-> {}]

Event(cur, total, msg) == [current |-> cur, total |-> total, msg |-> msg]

\* ------------------------------------------------------------ remote API

\* the reply that translates every line of the batch
Perfect(batch_lines) ==
    JoinLines([k \in 1..Len(batch_lines) |->
                  Fmt(OId(batch_lines[k]), TrText(OId(batch_lines[k])))])

\* the message contents the remote model may answer a batch with
\* the reply that leaves out the last line of the batch, and is no
\* 'id:::text' line at all for a batch of one line
Partial(batch_lines) ==
    IF Len(batch_lines) > 1
    THEN Perfect(SubSeq(batch_lines, 1, Len(batch_lines) - 1))
    ELSE << "g" >>

\* the message contents the remote model may answer a batch with
Payloads(batch_lines) == {Perfect(batch_lines), Partial(batch_lines)}

\* one line of response.iter_lines(), by what the loop makes of it
Frame(kind, content) == [kind |-> kind, content |-> content]

\* a message content as server-sent events: one delta per line, then [DONE]
Frames(content) ==
    LET lines == SplitLines(content)
    IN  [k \in 1..Len(lines) |->
            Frame("delta", IF k < Len(lines) THEN lines[k] \o << "\n" >>
                           ELSE lines[k])]
        \o << Frame("done", << >>) >>

\* the event streams the remote may send for a batch: a clean one, one that
\* ends without the sentinel, one with a keep-alive line, an undecodable
\* frame and a frame after the sentinel, and one whose connection breaks
FrameSeqs(batch_lines) ==
    {Frames(Perfect(batch_lines)),
     << Frame("delta", Perfect(batch_lines)) >>,
     << Frame("empty", << >>), Frame("bad", << "x" >>) >>
         \o Frames(Partial(batch_lines))
         \o << Frame("delta", << "z" >>) >>,
     << Frame("delta", << "g" >>), Frame("error", << >>) >>}

\* lines a remote model may put into a message: every separator of the
\* fallback pattern, other punctuation, prose, ':::' lines and repeated ids
ReplyLines ==
    {<< "1", "2", ")", " ", "t" >>,
     << "1", "|", "t" >>,
     << "2", " ", ":", " ", "t" >>,
     << "3", ">" >>,
     << "4", ".", "t" >>,
     << "5", "]", "t" >>,
     << "1", "(", "t" >>,
     << "1", " ", "t" >>,
     << "p", "q" >>,
     << "x", "1", "|", "t" >>,
     << "1" >> \o D \o << "a" >>,
     << " ", "1", " " >> \o D \o << " ", "b", " " >>,
     << "2" >> \o D \o << "c" >> \o D \o << "d" >>}

\* a bound of the model: the most lines of a generated message
MaxReplyLines == 2

\* the messages of 1..MaxReplyLines lines of ReplyLines
AnyPayloads ==
    UNION {{JoinLines(ls) : ls \in [1..n -> ReplyLines]} : n \in 1..MaxReplyLines}

\* ---------------------------------------------------------- rate limiter

\* request_lock can be taken
RequestLockFree == request_lock = 0

\* a variant of SleepTime that sleeps for the time already elapsed
SleepTimeElapsed(elapsed, delay_sec) ==
    IF elapsed < delay_sec THEN elapsed ELSE 0

\* the argument of time.sleep in wait_for_slot, 0 when it is not called
SleepTime(elapsed, delay_sec) ==
    IF elapsed < delay_sec THEN delay_sec - elapsed ELSE 0

\* -------------------------------------------------------- checkpoint file

\* a variant of FileWriteLockFree for a writer that takes no lock
FileWriteLockFreeNoLock == TRUE

\* file_write_lock can be taken
FileWriteLockFree == file_write_lock = 0

\* f.write(line + '\n')
WriteLine(file, line) == file \o line \o << "\n" >>

\* the lines a reader of the file gets (readlines, newline removed); a last
\* line without its newline is a line too
FileLines(file) ==
    IF file = << >> THEN << >>
    ELSE IF file[Len(file)] = "\n"
         THEN SplitLines(SubSeq(file, 1, Len(file) - 1))
         ELSE SplitLines(file)

\* ----------------------------------------------------------- coordinator

InitWith(files, configs) ==
    /\ input_file \in files
    /\ config_data \in configs
    /\ main_pc = "idle"
    /\ is_running = FALSE
    /\ stop_event = FALSE
    /\ raw = << >>
    /\ shared_output_lines = << >>
    /\ chunks = << >>
    /\ wk = << >>
    /\ request_lock = 0
    /\ file_write_lock = 0
    /\ last_request_time = 0
    /\ now = config_data.delay + 1
    /\ temp_file = Absent
    /\ output_file = PriorOutput
    /\ jobs = 0
    /\ grants = << >>
    /\ writers = << >>
    /\ http_log = << >>
    /\ events = << >>
    /\ snapshots = {}

Init == InitWith(InputFiles, Configs)

\* start_process, called by the Start button (enabled while no job runs);
\* the model follows the first job
StartProcess ==
    /\ main_pc = "idle"
    /\ ~is_running
    /\ jobs = 0
    /\ is_running' = TRUE
    /\ stop_event' = FALSE
    /\ main_pc' = "run"
    /\ jobs' = jobs + 1
    /\ UNCHANGED << input_file, config_data, raw, shared_output_lines, chunks,
                    wk, request_lock, file_write_lock, last_request_time, now,
                    temp_file, output_file, grants, writers, http_log, events,
                    snapshots >>

\* start_process once more, after a job has ended: the Start button is
\* enabled again by toggle_inputs(True)
StartAgain ==
    /\ main_pc = "idle"
    /\ ~is_running
    /\ jobs >= 1
    /\ jobs < MaxJobs
    /\ is_running' = TRUE
    /\ stop_event' = FALSE
    /\ main_pc' = "run"
    /\ jobs' = jobs + 1
    /\ UNCHANGED << input_file, config_data, raw, shared_output_lines, chunks,
                    wk, request_lock, file_write_lock, last_request_time, now,
                    temp_file, output_file, grants, writers, http_log, events,
                    snapshots >>

\* stop_process, called by the Stop button (enabled from start_process until
\* it is pressed or the job ends)
StopProcess ==
    /\ is_running
    /\ ~stop_event
    /\ stop_event' = TRUE
    /\ UNCHANGED << input_file, config_data, main_pc, is_running, raw,
                    shared_output_lines, chunks, wk, request_lock,
                    file_write_lock, last_request_time, now, temp_file,
                    output_file, jobs, grants, writers, http_log, events,
                    snapshots >>

\* run_logic from its first line to the last t.start(): raw, the Output
\* Buffer, data_points, the chunks and one thread per chunk. With no
\* data-bearing line chunk_size is 0 and range(0, 0, 0) raises ValueError,
\* which the except clause prints.
RunLogic ==
    /\ main_pc = "run"
    /\ LET lines == [k \in 1..Len(input_file) |-> Strip(input_file[k])]
           data_points == DataPoints(lines)
       IN  /\ raw' = lines
           /\ shared_output_lines' =
                  [k \in 1..Len(lines) |-> InitSlot(lines[k])]
           /\ writers' = [k \in 1..Len(lines) |-> {}]
           /\ \/ /\ Len(data_points) = 0
                 /\ chunks' = << >>
                 /\ main_pc' = "except"
              \/ /\ Len(data_points) > 0
                 /\ chunks' = MakeChunks(data_points, config_data.threads)
                 /\ main_pc' = "join"
           /\ wk' = [w \in 1..Len(chunks') |-> NewWorker]
           /\ http_log' = [w \in 1..Len(chunks') |-> << >>]
           /\ events' = [w \in 1..Len(chunks') |->
                            << Event(0, Len(chunks'[w]), "Ready") >>]
    /\ UNCHANGED << input_file, config_data, is_running, stop_event,
                    request_lock, file_write_lock, last_request_time, now,
                    temp_file, output_file, jobs, grants, snapshots >>

\* a variant of AfterJoin that promotes whatever the flag says
AfterJoinAlways == "remove"

\* if not stop_event.is_set(): where run_logic goes after the join
AfterJoin == IF stop_event THEN "finally" ELSE "remove"

\* for t in threads: t.join(), then the test of stop_event
Join ==
    /\ main_pc = "join"
    /\ \A w \in Workers : wk[w].pc = "done"
    /\ main_pc' = AfterJoin
    /\ UNCHANGED << input_file, config_data, is_running, stop_event, raw,
                    shared_output_lines, chunks, wk, request_lock,
                    file_write_lock, last_request_time, now, temp_file,
                    output_file, jobs, grants, writers, http_log, events,
                    snapshots >>

\* if os.path.exists(OUTPUT_FILE): os.remove(OUTPUT_FILE)
RemoveOutput ==
    /\ main_pc = "remove"
    /\ output_file' = Absent
    /\ main_pc' = "copy"
    /\ UNCHANGED << input_file, config_data, is_running, stop_event, raw,
                    shared_output_lines, chunks, wk, request_lock,
                    file_write_lock, last_request_time, now, temp_file, jobs,
                    grants, writers, http_log, events, snapshots >>

\* shutil.copy(TEMP_OUTPUT_FILE, OUTPUT_FILE); a missing source raises, and
\* the except clause prints
CopyOutput ==
    /\ main_pc = "copy"
    /\ output_file' = IF temp_file = Absent THEN output_file ELSE temp_file
    /\ main_pc' = IF temp_file = Absent THEN "except" ELSE "finally"
    /\ UNCHANGED << input_file, config_data, is_running, stop_event, raw,
                    shared_output_lines, chunks, wk, request_lock,
                    file_write_lock, last_request_time, now, temp_file, jobs,
                    grants, writers, http_log, events, snapshots >>

\* except Exception as e: print(e)
Except ==
    /\ main_pc = "except"
    /\ main_pc' = "finally"
    /\ UNCHANGED << input_file, config_data, is_running, stop_event, raw,
                    shared_output_lines, chunks, wk, request_lock,
                    file_write_lock, last_request_time, now, temp_file,
                    output_file, jobs, grants, writers, http_log, events,
                    snapshots >>

\* a variant of Finally that also clears the flag when the job ends
FinallyClears ==
    /\ main_pc = "finally"
    /\ is_running' = FALSE
    /\ stop_event' = FALSE
    /\ main_pc' = "idle"
    /\ UNCHANGED << input_file, config_data, raw,
                    shared_output_lines, chunks, wk, request_lock,
                    file_write_lock, last_request_time, now, temp_file,
                    output_file, jobs, grants, writers, http_log, events,
                    snapshots >>

\* finally: self.is_running = False; self.toggle_inputs(True)
Finally ==
    /\ main_pc = "finally"
    /\ is_running' = FALSE
    /\ main_pc' = "idle"
    /\ UNCHANGED << input_file, config_data, stop_event, raw,
                    shared_output_lines, chunks, wk, request_lock,
                    file_write_lock, last_request_time, now, temp_file,
                    output_file, jobs, grants, writers, http_log, events,
                    snapshots >>

\* --------------------------------------------------------- worker_process

Emit(w, cur, msg) ==
    [events EXCEPT ![w] = Append(@, Event(cur, TotalItems(w), msg))]

\* a variant of WLoop without the test of the flag
WLoopUnchecked(w) ==
    /\ wk[w].pc = "loop"
    /\ \/ /\ wk[w].i >= TotalItems(w)
          /\ wk' = [wk EXCEPT ![w].pc = "after"]
       \/ /\ wk[w].i < TotalItems(w)
          /\ wk' = [wk EXCEPT ![w].pc = "call"]
    /\ UNCHANGED << input_file, config_data, main_pc, is_running, stop_event,
                    raw, shared_output_lines, chunks, request_lock,
                    file_write_lock, last_request_time, now, temp_file,
                    output_file, jobs, grants, writers, http_log, events,
                    snapshots >>

\* the top of the for loop: the range is exhausted, or the flag is set
\* ("Stopped." and break), or the next batch is taken
WLoop(w) ==
    /\ wk[w].pc = "loop"
    /\ \/ /\ wk[w].i >= TotalItems(w)
          /\ wk' = [wk EXCEPT ![w].pc = "after"]
          /\ events' = events
       \/ /\ wk[w].i < TotalItems(w)
          /\ stop_event
          /\ wk' = [wk EXCEPT ![w].pc = "after", ![w].observed = TRUE]
          /\ events' = Emit(w, wk[w].processed, "Stopped.")
       \/ /\ wk[w].i < TotalItems(w)
          /\ ~stop_event
          /\ wk' = [wk EXCEPT ![w].pc = "call"]
          /\ events' = events
    /\ UNCHANGED << input_file, config_data, main_pc, is_running, stop_event,
                    raw, shared_output_lines, chunks, request_lock,
                    file_write_lock, last_request_time, now, temp_file,
                    output_file, jobs, grants, writers, http_log, snapshots >>

\* a variant of WCall without the test of the flag at its first line
WCallUnchecked(w) ==
    /\ wk[w].pc = "call"
    /\ wk' = [wk EXCEPT ![w].pc = "wait"]
    /\ UNCHANGED << input_file, config_data, main_pc, is_running, stop_event,
                    raw, shared_output_lines, chunks, request_lock,
                    file_write_lock, last_request_time, now, temp_file,
                    output_file, jobs, grants, writers, http_log, events,
                    snapshots >>

\* call_api_translate, its first line: the flag is set and batch_lines is
\* returned, or the prompt is built and wait_for_slot is called
WCall(w) ==
    /\ wk[w].pc = "call"
    /\ \/ /\ stop_event
          /\ wk' = [wk EXCEPT ![w].pc = "write", ![w].k = 0,
                              ![w].translated_batch = BatchLines(w),
                              ![w].outcome = "cancelled",
                              ![w].observed = TRUE]
       \/ /\ ~stop_event
          /\ wk' = [wk EXCEPT ![w].pc = "wait"]
    /\ UNCHANGED << input_file, config_data, main_pc, is_running, stop_event,
                    raw, shared_output_lines, chunks, request_lock,
                    file_write_lock, last_request_time, now, temp_file,
                    output_file, jobs, grants, writers, http_log, events,
                    snapshots >>

\* wait_for_slot: request_lock is taken, the clock is read and the end of the
\* sleep is fixed
WAcquire(w) ==
    /\ wk[w].pc = "wait"
    /\ RequestLockFree
    /\ request_lock' = w
    /\ \E dt \in 0..MaxDrift :
          /\ now' = now + dt
          /\ wk' = [wk EXCEPT ![w].pc = "sleep",
                       ![w].wake = now' + SleepTime(now' - last_request_time,
                                                    config_data.delay)]
    /\ UNCHANGED << input_file, config_data, main_pc, is_running, stop_event,
                    raw, shared_output_lines, chunks, file_write_lock,
                    last_request_time, temp_file, output_file, jobs, grants,
                    writers, http_log, events, snapshots >>

\* wait_for_slot: the sleep is over, last_request_time = time.time(), and
\* request_lock is released
WGrant(w) ==
    /\ wk[w].pc = "sleep"
    /\ now' = Max(now, wk[w].wake)
    /\ last_request_time' = now'
    /\ grants' = Append(grants, now')
    /\ request_lock' = IF request_lock = w THEN 0 ELSE request_lock
    /\ wk' = [wk EXCEPT ![w].pc = "post", ![w].wake = 0]
    /\ UNCHANGED << input_file, config_data, main_pc, is_running, stop_event,
                    raw, shared_output_lines, chunks, file_write_lock,
                    temp_file, output_file, jobs, writers, http_log, events,
                    snapshots >>

\* the prompt of a batch
Prompt(batch_lines) ==
    JoinLines(batch_lines) \o << "\n", "\n", "R" >>

\* a variant of Failed that sends the batch again
FailedRetry(w, how) ==
    [wk EXCEPT ![w].pc = "wait", ![w].frames = << >>, ![w].outcome = how,
               ![w].failed = @ \cup {wk[w].i}]

\* what the except clause and the status test return: batch_lines
Failed(w, how) ==
    [wk EXCEPT ![w].pc = "write", ![w].k = 0, ![w].frames = << >>,
               ![w].translated_batch = BatchLines(w),
               ![w].outcome = how, ![w].failed = @ \cup {wk[w].i}]

\* the end of the try block: translated_map from full_content, then results
Parsed(w, full_content, seen) ==
    [wk EXCEPT ![w].pc = "write", ![w].k = 0, ![w].frames = << >>,
               ![w].full_content = full_content,
               ![w].translated_batch =
                   Reconcile(ParseContent(full_content), BatchLines(w)),
               ![w].outcome = "ok",
               ![w].observed = seen]

\* the message the remote sends in an event stream: its deltas up to the
\* sentinel or the break of the connection
RECURSIVE SentContent(_)
SentContent(fs) ==
    IF fs = << >> \/ Head(fs).kind \in {"done", "error"} THEN << >>
    ELSE (IF Head(fs).kind = "delta" THEN Head(fs).content ELSE << >>)
         \o SentContent(Tail(fs))

\* history: the request of the current batch and the message sent back
Logged(w, reply) ==
    [http_log EXCEPT ![w] =
        Append(@, [i |-> wk[w].i, prompt |-> Prompt(BatchLines(w)),
                   reply |-> reply])]

\* requests.post and what comes back: an exception (network, timeout, a body
\* that is not the expected JSON), a status other than 200, a whole message,
\* or the start of an event stream
WPost(w) ==
    /\ wk[w].pc = "post"
    /\ \/ /\ wk' = Failed(w, "exception")
          /\ http_log' = Logged(w, << >>)
       \/ /\ wk' = Failed(w, "status")
          /\ http_log' = Logged(w, << >>)
       \/ /\ ~config_data.stream
          /\ \E c \in Payloads(BatchLines(w)) :
                /\ wk' = Parsed(w, c, wk[w].observed)
                /\ http_log' = Logged(w, c)
       \/ /\ config_data.stream
          /\ \E fs \in FrameSeqs(BatchLines(w)) :
                /\ wk' = [wk EXCEPT ![w].pc = "stream", ![w].frames = fs,
                                    ![w].full_content = << >>]
                /\ http_log' = Logged(w, SentContent(fs))
    /\ UNCHANGED << input_file, config_data, main_pc, is_running, stop_event,
                    raw, shared_output_lines, chunks, request_lock,
                    file_write_lock, last_request_time, now, temp_file,
                    output_file, jobs, grants, writers, events, snapshots >>

\* requests.post answered, not streamed, with any message of AnyPayloads
WPostAny(w) ==
    /\ wk[w].pc = "post"
    /\ \E c \in AnyPayloads :
          /\ wk' = Parsed(w, c, wk[w].observed)
          /\ http_log' = Logged(w, c)
    /\ UNCHANGED << input_file, config_data, main_pc, is_running, stop_event,
                    raw, shared_output_lines, chunks, request_lock,
                    file_write_lock, last_request_time, now, temp_file,
                    output_file, jobs, grants, writers, events, snapshots >>

\* a variant of Accumulated that takes each delta for the whole message
AccumulatedReplay(full_content, content) == content

\* full_content += content
Accumulated(full_content, content) == full_content \o content

\* one turn of the loop over response.iter_lines(), and its end
WStream(w) ==
    /\ wk[w].pc = "stream"
    /\ LET fs == wk[w].frames
           f == Head(fs)
       IN  \/ /\ fs = << >>
              /\ wk' = Parsed(w, wk[w].full_content, wk[w].observed)
           \/ /\ fs # << >>
              /\ f.kind = "error"
              /\ wk' = Failed(w, "exception")
           \/ /\ fs # << >>
              /\ f.kind # "error"
              /\ stop_event
              /\ wk' = Parsed(w, wk[w].full_content, TRUE)
           \/ /\ fs # << >>
              /\ ~stop_event
              /\ f.kind = "done"
              /\ wk' = Parsed(w, wk[w].full_content, wk[w].observed)
           \/ /\ fs # << >>
              /\ ~stop_event
              /\ f.kind \in {"empty", "bad"}
              /\ wk' = [wk EXCEPT ![w].frames = Tail(fs)]
           \/ /\ fs # << >>
              /\ ~stop_event
              /\ f.kind = "delta"
              /\ wk' = [wk EXCEPT ![w].frames = Tail(fs),
                                  ![w].full_content =
                                      Accumulated(@, f.content)]
    /\ UNCHANGED << input_file, config_data, main_pc, is_running, stop_event,
                    raw, shared_output_lines, chunks, request_lock,
                    file_write_lock, last_request_time, now, temp_file,
                    output_file, jobs, grants, writers, http_log, events,
                    snapshots >>

\* a variant of WriteIndex that takes the position in the chunk for the
\* global index
WriteIndexLocal(w) == wk[w].i + wk[w].k

\* the idx of the next turn of "for idx, result_line in zip(...)"
WriteIndex(w) == BatchIndices(w)[wk[w].k + 1]

\* shared_output_lines[idx] = result_line, one turn; after the last one the
\* worker goes on to save_progress_file
WWrite(w) ==
    /\ wk[w].pc = "write"
    /\ LET idx == WriteIndex(w)
           done == wk[w].k + 1 >= Min(Len(BatchIndices(w)),
                                      Len(wk[w].translated_batch))
       IN  /\ shared_output_lines' =
                  [shared_output_lines EXCEPT
                      ![idx + 1] = wk[w].translated_batch[wk[w].k + 1]]
           /\ writers' = [writers EXCEPT ![idx + 1] = @ \cup {w}]
           /\ wk' = [wk EXCEPT ![w].k = @ + 1,
                               ![w].pc = IF done THEN "flush" ELSE "write"]
    /\ snapshots' = IF file_write_lock # 0
                    THEN snapshots \cup {shared_output_lines'}
                    ELSE snapshots
    /\ UNCHANGED << input_file, config_data, main_pc, is_running, stop_event,
                    raw, chunks, request_lock, file_write_lock,
                    last_request_time, now, temp_file, output_file, jobs,
                    grants, http_log, events >>

\* a variant of WFlushBegin that gives the save up when another worker holds
\* file_write_lock
WFlushBeginTry(w) ==
    /\ wk[w].pc = "flush"
    /\ \/ /\ FileWriteLockFree
          /\ file_write_lock' = w
          /\ temp_file' = << >>
          /\ snapshots' = {shared_output_lines}
          /\ wk' = [wk EXCEPT ![w].pc = "flushing", ![w].fpos = 0]
       \/ /\ ~FileWriteLockFree
          /\ wk' = [wk EXCEPT ![w].pc = "flushing",
                              ![w].fpos = Len(shared_output_lines)]
          /\ UNCHANGED << file_write_lock, temp_file, snapshots >>
    /\ UNCHANGED << input_file, config_data, main_pc, is_running, stop_event,
                    raw, shared_output_lines, chunks, request_lock,
                    last_request_time, now, output_file, jobs, grants,
                    writers, http_log, events >>

\* save_progress_file: file_write_lock is taken and the file is opened for
\* writing, which empties it
WFlushBegin(w) ==
    /\ wk[w].pc = "flush"
    /\ FileWriteLockFree
    /\ file_write_lock' = w
    /\ temp_file' = << >>
    /\ snapshots' = {shared_output_lines}
    /\ wk' = [wk EXCEPT ![w].pc = "flushing", ![w].fpos = 0]
    /\ UNCHANGED << input_file, config_data, main_pc, is_running, stop_event,
                    raw, shared_output_lines, chunks, request_lock,
                    last_request_time, now, output_file, jobs, grants,
                    writers, http_log, events >>

\* save_progress_file: one turn of "for line in shared_output_lines"
WFlushLine(w) ==
    /\ wk[w].pc = "flushing"
    /\ wk[w].fpos < Len(shared_output_lines)
    /\ temp_file' = WriteLine(temp_file, shared_output_lines[wk[w].fpos + 1])
    /\ wk' = [wk EXCEPT ![w].fpos = @ + 1]
    /\ UNCHANGED << input_file, config_data, main_pc, is_running, stop_event,
                    raw, shared_output_lines, chunks, request_lock,
                    file_write_lock, last_request_time, now, output_file,
                    jobs, grants, writers, http_log, events, snapshots >>

\* a variant of WFlushEnd that leaves save_progress_file without releasing
\* file_write_lock
WFlushEndHolds(w) ==
    /\ wk[w].pc = "flushing"
    /\ wk[w].fpos >= Len(shared_output_lines)
    /\ wk' = [wk EXCEPT ![w].pc = "loop",
                        ![w].processed = @ + Len(BatchLines(w)),
                        ![w].i = @ + config_data.batch_size,
                        ![w].translated_batch = << >>,
                        ![w].full_content = << >>,
                        ![w].k = 0, ![w].fpos = 0, ![w].outcome = "none"]
    /\ events' = Emit(w, wk[w].processed + Len(BatchLines(w)), "")
    /\ snapshots' = {}
    /\ UNCHANGED << input_file, config_data, main_pc, is_running, stop_event,
                    raw, shared_output_lines, chunks, request_lock,
                    file_write_lock, last_request_time, now, temp_file,
                    output_file, jobs, grants, writers, http_log >>

\* save_progress_file returns: the file is closed and file_write_lock
\* released; then processed += len(batch_lines), the progress event, and the
\* next turn of the for loop
WFlushEnd(w) ==
    /\ wk[w].pc = "flushing"
    /\ wk[w].fpos >= Len(shared_output_lines)
    /\ file_write_lock' = IF file_write_lock = w THEN 0 ELSE file_write_lock
    /\ wk' = [wk EXCEPT ![w].pc = "loop",
                        ![w].processed = @ + Len(BatchLines(w)),
                        ![w].i = @ + config_data.batch_size,
                        ![w].translated_batch = << >>,
                        ![w].full_content = << >>,
                        ![w].k = 0, ![w].fpos = 0, ![w].outcome = "none"]
    /\ events' = Emit(w, wk[w].processed + Len(BatchLines(w)), "")
    /\ snapshots' = {}
    /\ UNCHANGED << input_file, config_data, main_pc, is_running, stop_event,
                    raw, shared_output_lines, chunks, request_lock,
                    last_request_time, now, temp_file, output_file, jobs,
                    grants, writers, http_log >>

\* after the loop, on both ways out of it: ui_callback(total_items,
\* total_items, "Finished."), and the thread ends
WAfter(w) ==
    /\ wk[w].pc = "after"
    /\ wk' = [wk EXCEPT ![w].pc = "done"]
    /\ events' = Emit(w, TotalItems(w), "Finished.")
    /\ UNCHANGED << input_file, config_data, main_pc, is_running, stop_event,
                    raw, shared_output_lines, chunks, request_lock,
                    file_write_lock, last_request_time, now, temp_file,
                    output_file, jobs, grants, writers, http_log, snapshots >>

\* ----------------------------------------------------------- the program

Next ==
    \/ StartProcess
    \/ StopProcess
    \/ RunLogic
    \/ Join
    \/ RemoveOutput
    \/ CopyOutput
    \/ Except
    \/ Finally
    \/ \E w \in Workers : WLoop(w)
    \/ \E w \in Workers : WCall(w)
    \/ \E w \in Workers : WAcquire(w)
    \/ \E w \in Workers : WGrant(w)
    \/ \E w \in Workers : WPost(w)
    \/ \E w \in Workers : WStream(w)
    \/ \E w \in Workers : WWrite(w)
    \/ \E w \in Workers : WFlushBegin(w)
    \/ \E w \in Workers : WFlushLine(w)
    \/ \E w \in Workers : WFlushEnd(w)
    \/ \E w \in Workers : WAfter(w)

Spec == Init /\ [][Next]_vars

\* the partitioner alone, on generated inputs and thread counts
InitPartition == InitWith(GenFiles, GenConfigs)

NextPartition == StartProcess \/ RunLogic \/ Except \/ Finally

SpecPartition == InitPartition /\ [][NextPartition]_vars

\* several jobs one after the other, each of two workers on FileHeader
JobConfigs == [threads : {2}, batch_size : {1}, delay : {1}, stream : {FALSE}]

InitJobs == InitWith({FileHeader}, JobConfigs)

NextJobs ==
    \/ StartProcess
    \/ StartAgain
    \/ StopProcess
    \/ RunLogic
    \/ Join
    \/ RemoveOutput
    \/ CopyOutput
    \/ Finally
    \/ \E w \in Workers : WLoop(w)
    \/ \E w \in Workers : WCall(w)
    \/ \E w \in Workers : WAcquire(w)
    \/ \E w \in Workers : WGrant(w)
    \/ \E w \in Workers : WPost(w)
    \/ \E w \in Workers : WWrite(w)
    \/ \E w \in Workers : WFlushBegin(w)
    \/ \E w \in Workers : WFlushLine(w)
    \/ \E w \in Workers : WFlushEnd(w)
    \/ \E w \in Workers : WAfter(w)

SpecJobs == InitJobs /\ [][NextJobs]_vars

\* the steps of the thread of run_logic
CoordinatorStep ==
    RunLogic \/ Join \/ RemoveOutput \/ CopyOutput \/ Except \/ Finally

\* the steps of the thread of worker w
WorkerStep(w) ==
    \/ WLoop(w) \/ WCall(w) \/ WAcquire(w) \/ WGrant(w) \/ WPost(w)
    \/ WWrite(w) \/ WFlushBegin(w) \/ WFlushLine(w) \/ WFlushEnd(w)
    \/ WAfter(w)

\* the steps of the threads of the program
ThreadStep == CoordinatorStep \/ \E w \in Workers : WorkerStep(w)

\* as long as some thread can run, some thread does run: the threads are
\* scheduled by the operating system, a sleep ends, and a request returns,
\* fails or times out (timeout=120); the user's Start and Stop are under no
\* obligation
Fairness == WF_vars(ThreadStep)

\* one job of FileHeader, two workers of one batch each or one worker of two
\* batches, or one job without a data-bearing line
LiveConfigs ==
    [threads : {0, 2}, batch_size : {1}, delay : {1}, stream : {FALSE}]

InitLive == InitWith({FileHeader, FileHeaderOnly}, LiveConfigs)

NextLive ==
    \/ StartProcess
    \/ StopProcess
    \/ RunLogic
    \/ Join
    \/ RemoveOutput
    \/ CopyOutput
    \/ Except
    \/ Finally
    \/ \E w \in Workers : WLoop(w)
    \/ \E w \in Workers : WCall(w)
    \/ \E w \in Workers : WAcquire(w)
    \/ \E w \in Workers : WGrant(w)
    \/ \E w \in Workers : WPost(w)
    \/ \E w \in Workers : WWrite(w)
    \/ \E w \in Workers : WFlushBegin(w)
    \/ \E w \in Workers : WFlushLine(w)
    \/ \E w \in Workers : WFlushEnd(w)
    \/ \E w \in Workers : WAfter(w)

SpecLive == InitLive /\ [][NextLive]_vars /\ Fairness

\* one worker up to the parse of its first reply, the reply being any message
ParseConfigs == [threads : {1}, batch_size : {2}, delay : {1}, stream : {FALSE}]

InitParse == InitWith({FileMixed}, ParseConfigs)

NextParse ==
    \/ StartProcess
    \/ RunLogic
    \/ \E w \in Workers : WLoop(w)
    \/ \E w \in Workers : WCall(w)
    \/ \E w \in Workers : WAcquire(w)
    \/ \E w \in Workers : WGrant(w)
    \/ \E w \in Workers : WPostAny(w)

SpecParse == InitParse /\ [][NextParse]_vars

\* ------------------------------------------------------------ properties

\* run_logic is past the building of the chunks
ChunksBuilt == main_pc \in {"join", "remove", "copy", "finally"}

\* the global indices of a chunk
IndicesOf(chunk) == {chunk[k][2] : k \in DOMAIN chunk}

\* C1: for every number of data-bearing entries and every thread count, the
\* chunks are non-empty, pairwise disjoint in their global indices, and
\* concatenated in order they are the data-bearing (line, index) sequence:
\* nothing dropped, nothing twice, order kept.
C1_PartitionCoverage ==
    ChunksBuilt =>
        /\ \A c \in DOMAIN chunks : chunks[c] # << >>
        /\ \A c, d \in DOMAIN chunks :
              c # d => IndicesOf(chunks[c]) \cap IndicesOf(chunks[d]) = {}
        /\ Concat(chunks) = DataPoints(raw)
        /\ \A k \in DOMAIN DataPoints(raw) :
              DataPoints(raw)[k][1] = raw[DataPoints(raw)[k][2] + 1]

\* several chunks, the last one shorter than the others, behind a header
C1_Witness ==
    /\ ChunksBuilt
    /\ Len(chunks) >= 3
    /\ Len(chunks[Len(chunks)]) < Len(chunks[1])
    /\ HasHeader(raw)

\* C2: every write into the Output Buffer targets an index of the writing
\* worker's own chunk, and no index is written by two workers.
C2_DisjointWrites ==
    \A j \in DOMAIN writers :
        /\ Cardinality(writers[j]) <= 1
        /\ \A w \in writers[j] : (j - 1) \in IndicesOf(chunks[w])

\* two workers have both written, one of them a whole batch of two lines
C2_Witness ==
    /\ Len(chunks) = 2
    /\ \E j \in DOMAIN writers : writers[j] = {1}
    /\ \E j \in DOMAIN writers : writers[j] = {2}
    /\ Cardinality({j \in DOMAIN writers : writers[j] = {1}}) = 2

\* the workers inside the critical section of wait_for_slot
InSlot == {w \in Workers : wk[w].pc = "sleep"}

\* C3: the values stored into last_request_time by any two acquisitions
\* differ by at least the configured delay, and at most one worker is
\* inside the critical section of wait_for_slot.
C3_RateLimit ==
    /\ \A a, b \in DOMAIN grants :
          a < b => grants[b] - grants[a] >= config_data.delay
    /\ Cardinality(InSlot) <= 1
    /\ \A w \in InSlot : request_lock = w

\* a worker sleeps inside wait_for_slot after an earlier grant while the
\* other worker waits for request_lock
C3_Witness ==
    \E w, v \in Workers :
        /\ wk[w].pc = "sleep"
        /\ wk[w].wake > now
        /\ wk[v].pc = "wait"
        /\ Len(grants) >= 1

\* the id of a line: what precedes its first ':::', trimmed; a line without
\* ':::' is taken whole, as the client takes it
LineId(line) ==
    IF FindDelim(line) = 0 THEN Strip(line)
    ELSE Strip(Slice(line, 1, FindDelim(line) - 1))

\* everything after the first ':::' of a line
TextOf(line) == Slice(line, FindDelim(line) + 3, Len(line))

StartsWith(s, prefix) ==
    Len(s) >= Len(prefix) /\ SubSeq(s, 1, Len(prefix)) = prefix

\* a buffer value whose text is the translation the remote gave for the line
\* at buffer position j
IsTranslated(j, v) ==
    HasDelim(v) /\ TextOf(v) = TrText(LineId(raw[j]))

\* C4: once the cancellation flag is set, a worker that has observed it
\* writes no translated value into the Output Buffer.
C4_NoTranslatedWriteAfterCancel ==
    [][\A w \in Workers :
          (/\ stop_event
           /\ wk[w].observed
           /\ wk[w].pc = "write"
           /\ wk'[w].k = wk[w].k + 1)
          => ~IsTranslated(WriteIndex(w) + 1,
                           shared_output_lines'[WriteIndex(w) + 1])]_vars

\* C5: an id-bearing batch line whose id is absent from the parsed mapping
\* comes back with its complete original text, everything after its first
\* ':::' (compared trimmed, as the client trims it).
C5_ReconciliationFallback ==
    \A w \in Workers :
        (wk[w].pc = "write" /\ wk[w].outcome = "ok") =>
            \A k \in DOMAIN BatchLines(w) :
                (/\ HasDelim(BatchLines(w)[k])
                 /\ LineId(BatchLines(w)[k])
                       \notin DOMAIN ParseContent(wk[w].full_content))
                => /\ HasDelim(wk[w].translated_batch[k])
                   /\ TextOf(wk[w].translated_batch[k])
                         = Strip(TextOf(BatchLines(w)[k]))
                   /\ TextOf(wk[w].translated_batch[k]) # << >>

\* C6: the slot of an input line without ':::' equals the raw line in every
\* state of the job.
C6_BareLinesPassThrough ==
    ChunksBuilt =>
        \A j \in DOMAIN raw :
            ~HasDelim(raw[j]) => shared_output_lines[j] = raw[j]

BatchOffsets(w) ==
    {i \in 0..(TotalItems(w) - 1) : i % config_data.batch_size = 0}

\* C8: a failed request is not retried and does not end the worker: no batch
\* is requested twice, a failed batch comes back unchanged after its one
\* request, and a worker that ends without having seen the flag has gone
\* through every batch of its chunk.
C8_FailureIsNotFatal ==
    \A w \in Workers :
        /\ \A a, b \in DOMAIN http_log[w] :
              a # b => http_log[w][a].i # http_log[w][b].i
        /\ \A i \in wk[w].failed : \E a \in DOMAIN http_log[w] :
              http_log[w][a].i = i
        /\ (wk[w].pc = "write" /\ wk[w].outcome \in {"exception", "status"})
              => /\ wk[w].translated_batch = BatchLines(w)
                 /\ wk[w].i \in wk[w].failed
        /\ (wk[w].pc = "done" /\ ~wk[w].observed)
              => /\ wk[w].processed = TotalItems(w)
                 /\ \A i \in BatchOffsets(w) :
                       i \in wk[w].failed
                       \/ \E a \in DOMAIN http_log[w] : http_log[w][a].i = i

\* a worker whose first request failed has gone on through a later batch to
\* its end
C8_Witness ==
    \E w \in Workers :
        /\ wk[w].pc = "done"
        /\ ~wk[w].observed
        /\ 0 \in wk[w].failed
        /\ Len(http_log[w]) >= 2

\* the workers inside save_progress_file
InFlush == {w \in Workers : wk[w].pc = "flushing"}

\* a flush has written its last line
FlushComplete(w) ==
    wk[w].pc = "flushing" /\ wk[w].fpos >= Len(shared_output_lines)

\* C9: the checkpoint a flush produces equals the whole Output Buffer as it
\* stood at one instant of that flush.
C9_ConsistentSnapshot ==
    \A w \in Workers :
        FlushComplete(w) => FileLines(temp_file) \in snapshots

\* C10: a completed flush leaves one line per Output Buffer slot in the
\* checkpoint file, in index order, and at most one worker writes the file
\* at a time.
C10_CheckpointComplete ==
    /\ Cardinality(InFlush) <= 1
    /\ \A w \in InFlush : file_write_lock = w
    /\ ((\E w \in Workers : FlushComplete(w))
        \/ (file_write_lock = 0 /\ temp_file # Absent))
        => /\ Len(FileLines(temp_file)) = Len(raw)
           /\ \A j \in DOMAIN raw :
                 LineId(FileLines(temp_file)[j]) = LineId(raw[j])

\* a flush has written its last line after an earlier completed flush, while
\* the other worker waits for file_write_lock
C10_Witness ==
    \E w, v \in Workers :
        /\ FlushComplete(w)
        /\ wk[v].pc = "flush"
        /\ wk[v].i > 0

\* every worker thread has returned
AllDone == \A w \in Workers : wk[w].pc = "done"

\* the events a worker has reported that carry the message msg
Reported(w, msg) == {n \in DOMAIN events[w] : events[w][n].msg = msg}

C12_AtomicPromotion ==
    \/ output_file = PriorOutput
    \/ output_file # Absent /\ output_file = temp_file

\* C13: a worker that found the flag set at the top of its loop reports
\* "Stopped." as its last event, "Finished." is reported only by a worker that
\* went through its whole chunk, and no worker reports both.
C13_StoppedOrFinished ==
    \A w \in Workers :
        /\ ~(Reported(w, "Stopped.") # {} /\ Reported(w, "Finished.") # {})
        /\ (wk[w].pc = "done" /\ Reported(w, "Stopped.") # {}) =>
              events[w][Len(events[w])].msg = "Stopped."
        /\ Reported(w, "Finished.") # {} => wk[w].i >= TotalItems(w)

\* the worker left its loop by the break of the cancellation test
Stopped(w) == wk[w].pc \in {"after", "done"} /\ wk[w].i < TotalItems(w)

\* what the claims call the initial placeholder of a line
Placeholder(line) == IF FindDelim(line) = 0 THEN line ELSE LineId(line) \o D

\* C14: once a worker has stopped because of cancellation, every buffer index
\* of a batch it had not started holds its initial placeholder ('{id}:::' for
\* an identifier line), in that state and in every later state of the job.
C14_UnstartedKeepPlaceholder ==
    \A w \in Workers :
        Stopped(w) =>
            \A k \in (wk[w].i + 1)..TotalItems(w) :
                LET j == LocalIndices(w)[k] + 1
                IN  shared_output_lines[j] = Placeholder(raw[j])

C14_Witness ==
    /\ main_pc = "finally"
    /\ \E w \in Workers :
          /\ Stopped(w)
          /\ wk[w].pc = "done"
          /\ wk[w].i > 0
          /\ HasDelim(raw[LocalIndices(w)[wk[w].i + 1] + 1])
          /\ shared_output_lines[LocalIndices(w)[1] + 1]
                # Placeholder(raw[LocalIndices(w)[1] + 1])

\* C15: for every readable input, one without a data-bearing entry included,
\* and every thread count, run_logic builds its chunks and ends the job
\* without passing through its except clause.
C15_NoPartitionError == main_pc # "except"

\* the least q with q * n >= t
CeilOf(t, n) == CHOOSE q \in 0..t : q * n >= t /\ \A r \in 0..(q - 1) : r * n < t

\* C16: for T data-bearing entries and n requested workers there are at most
\* max(1, n) chunks, every chunk but the last has exactly ceil(T / max(1, n))
\* entries and the last has no more, one worker is spawned per chunk, and
\* n > T gives T chunks of one entry.
C16_ChunkSizes ==
    ChunksBuilt =>
        LET T == Len(DataPoints(raw))
            n == Max(1, config_data.threads)
            size == CeilOf(T, n)
        IN  /\ Len(chunks) <= n
            /\ \A c \in 1..(Len(chunks) - 1) : Len(chunks[c]) = size
            /\ chunks # << >> => Len(chunks[Len(chunks)]) <= size
            /\ DOMAIN wk = DOMAIN chunks
            /\ n > T => /\ Len(chunks) = T
                        /\ \A c \in DOMAIN chunks : Len(chunks[c]) = 1

C16_Witness ==
    /\ main_pc = "join"
    /\ config_data.threads = 4
    /\ Len(DataPoints(raw)) = 6
    /\ Len(chunks) = 3
    /\ \A c \in DOMAIN chunks : Len(chunks[c]) = 2
    /\ DOMAIN wk = 1..3

\* the line 'id:::translation' the remote is expected to send for a line
Expected(line) == LineId(line) \o D \o TrText(LineId(line))

\* the logged request e of worker w was answered with a message that holds
\* the expected line for every identifier line of its batch
CompleteReply(w, e) ==
    LET batch == PySlice(LocalLines(w), e.i, e.i + config_data.batch_size)
        sent == SplitLines(e.reply)
    IN  \A k \in DOMAIN batch :
            HasDelim(batch[k]) =>
                \E n \in DOMAIN sent : sent[n] = Expected(batch[k])

\* the job ran without cancellation and every request succeeded completely
AllRepliesComplete ==
    /\ Workers # {}
    /\ AllDone
    /\ ~stop_event
    /\ \A w \in Workers :
          /\ wk[w].failed = {}
          /\ \A n \in DOMAIN http_log[w] : CompleteReply(w, http_log[w][n])

\* C17: without cancellation and with every request answered by an
\* 'id:::translation' line for every id, once all workers have finished the
\* slot of every data-bearing identifier line holds '{id}:::{translation}',
\* whatever the thread count and the batch size.
C17_EndToEnd ==
    AllRepliesComplete =>
        \A w \in Workers :
            \A k \in 1..TotalItems(w) :
                LET j == LocalIndices(w)[k] + 1
                IN  HasDelim(raw[j]) => shared_output_lines[j] = Expected(raw[j])

C17_Witness ==
    /\ AllRepliesComplete
    /\ main_pc = "finally"
    /\ Len(chunks) = 2
    /\ config_data.batch_size = 1
    /\ config_data.stream
    /\ Len(http_log[1]) = 2
    /\ \E j \in DOMAIN raw : shared_output_lines[j] = Expected(raw[j])

\* C18: within a job the flag, once set, stays set; it is cleared only by the
\* step that starts a new job, and a job starts only when no job is running
\* and every worker of the previous job has returned.
C18_FlagMonotonic ==
    [][ /\ (stop_event /\ ~stop_event') =>
              /\ main_pc = "idle"
              /\ main_pc' = "run"
              /\ jobs' = jobs + 1
        /\ jobs' # jobs => main_pc = "idle" /\ ~is_running /\ AllDone
      ]_vars

C18_Witness ==
    /\ jobs = 2
    /\ main_pc = "run"
    /\ ~stop_event
    /\ \E w \in Workers : wk[w].observed /\ wk[w].pc = "done"

\* C19: a call of call_api_translate that finds the flag set returns its
\* input unchanged in one step that takes no rate-limiter slot
\* (last_request_time, request_lock and the grants are unchanged) and sends
\* no request; until its result is written no request for that batch exists.
C19_CancelledCallReturnsInput ==
    /\ [][ \A w \in Workers :
              (wk[w].pc = "call" /\ stop_event /\ wk'[w].pc # "call") =>
                  /\ wk'[w].pc = "write"
                  /\ wk'[w].translated_batch = BatchLines(w)
                  /\ last_request_time' = last_request_time
                  /\ request_lock' = request_lock
                  /\ grants' = grants
                  /\ http_log' = http_log
          ]_vars
    /\ [](\A w \in Workers :
              (wk[w].pc = "write" /\ wk[w].outcome = "cancelled") =>
                  /\ wk[w].translated_batch = BatchLines(w)
                  /\ \A n \in DOMAIN http_log[w] : http_log[w][n].i # wk[w].i)

C19_Witness ==
    \E w \in Workers :
        /\ wk[w].pc = "write"
        /\ wk[w].outcome = "cancelled"
        /\ wk[w].i > 0
        /\ Len(http_log[w]) = 1
        /\ grants # << >>

\* the first line is a header: the prefix before its first ':::' is "0"
FirstIsHeader(lines) ==
    /\ lines # << >>
    /\ FindDelim(lines[1]) = 2
    /\ lines[1][1] = "0"

\* C20: when the first input line is a header, index 0 is in no chunk, no
\* request prompt holds the header line, and no worker writes slot 0.
C20_HeaderExcluded ==
    FirstIsHeader(raw) =>
        /\ \A c \in DOMAIN chunks : 0 \notin IndicesOf(chunks[c])
        /\ \A w \in Workers : \A n \in DOMAIN http_log[w] :
              LET sent == SplitLines(http_log[w][n].prompt)
              IN  \A k \in DOMAIN sent : sent[k] # raw[1]
        /\ writers[1] = {}
        /\ shared_output_lines[1] = Placeholder(raw[1])

C20_Witness ==
    /\ FirstIsHeader(raw)
    /\ Len(raw) = 3
    /\ AllDone
    /\ \A w \in Workers : http_log[w] # << >>
    /\ \A j \in 2..3 : writers[j] # {}

\* the separators the claim names, and the ones of the pattern
ClaimSeparators == {"|", ":", ">", ".", "]"}

PatternSeparators == ClaimSeparators \cup {")"}

\* what a payload line stands for when the separators are seps: << >> for a
\* line that adds no entry, else << id, text >>
EntryOf(line, seps) ==
    IF HasDelim(line)
    THEN << Strip(Slice(line, 1, FindDelim(line) - 1)),
            Strip(Slice(line, FindDelim(line) + 3, Len(line))) >>
    ELSE LET fits == {dp \in (1..Len(line)) \X (1..Len(line)) :
                         /\ dp[1] < dp[2]
                         /\ \A k \in 1..dp[1] : IsDigit(line[k])
                         /\ \A k \in (dp[1] + 1)..(dp[2] - 1) : IsSpace(line[k])
                         /\ line[dp[2]] \in seps}
         IN  IF fits = {} THEN << >>
             ELSE LET dp == CHOOSE x \in fits : TRUE
                  IN  << Slice(line, 1, dp[1]),
                         Strip(Slice(line, dp[2] + 1, Len(line))) >>

\* map holds exactly the ids of the lines that stand for an entry, each with
\* the text of the last such line
MapAgrees(map, lines, seps) ==
    LET hits == {n \in DOMAIN lines : EntryOf(lines[n], seps) # << >>}
        last(k) == CHOOSE n \in hits :
                       /\ EntryOf(lines[n], seps)[1] = k
                       /\ \A m \in hits :
                             EntryOf(lines[m], seps)[1] = k => m <= n
    IN  /\ DOMAIN map = {EntryOf(lines[n], seps)[1] : n \in hits}
        /\ \A k \in DOMAIN map : map[k] = EntryOf(lines[last(k)], seps)[2]

\* the workers that hold a parsed reply
HasParsed == {w \in Workers : wk[w].pc = "write" /\ wk[w].outcome = "ok"}

\* C21 (as amended): a payload line with ':::' maps its trimmed left part to
\* its trimmed right part; any other line adds an entry only if it is a
\* leading integer, optional blanks and one separator of | : > . ) ] ,
\* mapping the integer to the trimmed rest; every other line adds nothing, and
\* a later line with an id already present overwrites the earlier text.
C21_ParserEntries ==
    \A w \in HasParsed :
        MapAgrees(ParseContent(wk[w].full_content),
                  SplitLines(Strip(wk[w].full_content)), PatternSeparators)

C21_Witness ==
    \E w \in HasParsed :
        LET map == ParseContent(wk[w].full_content)
        IN  /\ wk[w].full_content =
                  << "1", "2", ")", " ", "t", "\n", "p", "q" >>
            /\ DOMAIN map = {<< "1", "2" >>}
            /\ map[<< "1", "2" >>] = << "t" >>

\* C21 as stated: the separators are exactly | : > . ] , so '12) text' adds
\* no entry
C21_ParserEntriesNoParen ==
    \A w \in HasParsed :
        MapAgrees(ParseContent(wk[w].full_content),
                  SplitLines(Strip(wk[w].full_content)), ClaimSeparators)

\* the message sent in answer to the request a worker is working on
CurrentReply(w) == http_log[w][Len(http_log[w])].reply

\* a is the beginning of b
IsPrefix(a, b) == Len(a) <= Len(b) /\ SubSeq(b, 1, Len(a)) = a

C23_PromotedEqualsBuffer ==
    /\ main_pc \in {"remove", "copy"} =>
          /\ AllDone
          /\ FileLines(temp_file) = shared_output_lines
    /\ (main_pc \in {"finally", "idle"} /\ output_file # PriorOutput) =>
          /\ output_file # Absent
          /\ FileLines(output_file) = shared_output_lines

C23_Witness ==
    /\ main_pc = "finally"
    /\ ~stop_event
    /\ output_file # PriorOutput
    /\ Len(chunks) = 2
    /\ config_data.batch_size = 1
    /\ \A w \in Workers : http_log[w] # << >> /\ wk[w].failed = {}
    /\ \E j \in DOMAIN raw : shared_output_lines[j] = Expected(raw[j])

\* the requests a worker at pc can still issue once the flag is set: one if
\* it is past the test of the flag in call_api_translate, else none
RequestsLeft(pc) == IF pc \in {"wait", "sleep", "post"} THEN 1 ELSE 0

\* the batch writes a worker at pc can still make once the flag is set: the
\* one of the batch it has taken, if that is not yet written
BatchWritesLeft(pc) ==
    IF pc \in {"call", "wait", "sleep", "post", "stream", "write"} THEN 1 ELSE 0

\* C24: with the flag set, a step in which a worker issues a request uses up
\* the one request it has left, which only a worker past the flag test of the
\* translation client has; a step that completes a batch write uses up the
\* one batch write it has left; no step gives either back, and once the
\* workers run the buffer is written only by a worker in its batch write. So after the flag is set a
\* worker issues at most one request and makes at most one batch write.
C24_OneMoreAfterCancel ==
    [][ stop_event =>
          /\ \A w \in Workers :
                /\ RequestsLeft(wk'[w].pc)
                      + (IF http_log'[w] # http_log[w] THEN 1 ELSE 0)
                      <= RequestsLeft(wk[w].pc)
                /\ BatchWritesLeft(wk'[w].pc)
                      + (IF wk[w].pc = "write" /\ wk'[w].pc # "write"
                         THEN 1 ELSE 0)
                      <= BatchWritesLeft(wk[w].pc)
          /\ (main_pc # "run" /\ shared_output_lines' # shared_output_lines) =>
                \E w \in Workers : wk[w].pc = "write" /\ wk'[w] # wk[w]
          /\ stop_event'
      ]_vars

C24_Witness ==
    /\ stop_event
    /\ \E w, v \in Workers :
          /\ wk[w].pc = "post"
          /\ wk[w].i > 0
          /\ Len(http_log[w]) = 1
          /\ wk[v].pc = "done"
          /\ wk[v].observed

\* C25: under fair scheduling a started job leads to every worker returned
\* and run_logic in its finally clause, and no worker ever holds request_lock
\* and file_write_lock together.
C25_Termination ==
    /\ [](\A w \in Workers : ~(request_lock = w /\ file_write_lock = w))
    /\ (main_pc = "run") ~> (main_pc = "finally" /\ AllDone)

C25_Witness ==
    /\ main_pc = "finally"
    /\ AllDone
    /\ Len(chunks) = 2
    /\ \E w \in Workers : Stopped(w)
    /\ \E w \in Workers : ~wk[w].observed /\ Len(http_log[w]) >= 1


====
